---- MODULE Spec2Model ----
(***************************************************************************)
(* ztime: runs a child command, relays signals to it, measures it and      *)
(* renders the measurements through a percent-escaped template.            *)
(*                                                                         *)
(* Spec        the run: main, runCommand, the relay listener goroutine,    *)
(*             the Go runtime's signal delivery and the child process.     *)
(* FormatSpec  the template interpreter format(), one loop iteration per   *)
(*             step, over bounded templates and Metrics values.            *)
(* ReportSpec  the end of a run, from extractMetrics to os.Exit, over      *)
(*             bounded process states, usage records and elapsed times.    *)
(***************************************************************************)
EXTENDS Integers, Sequences, FiniteSets, TLC

VARIABLES
    pc,           \* main goroutine: the statement it is about to execute
    lpc,          \* listener goroutine: "none", "recv", "check", "signal", "done"
    lsig,         \* listener: the signal held in `sig`, [id, sig] (NoSig: none)
    sigChan,      \* buffered contents of sigChan, [id, sig], oldest first
    chanClosed,   \* close(sigChan) has been executed
    subscribed,   \* signal.Notify is in force for sigChan
    cmdProcess,   \* cmd.Process: "nil" or "set"
    child,        \* the child: "none", "running", "zombie", "reaped"
    waitStatus,   \* how the child ended (NoStatus until it has)
    processState, \* cmd.ProcessState: NoState or [set, status, native, usage]
    runErr,       \* err returned by cmd.Run(): "unset", "nil", "exit", "launch"
    clock,        \* wall clock, in ticks
    startT,       \* start := time.Now()
    endT,         \* end := time.Now()
    metrics,      \* the Metrics returned by runCommand (zero before)
    stderr,       \* what the wrapper wrote to os.Stderr, in order
    stdout,       \* what the wrapper itself wrote to os.Stdout, in order
    inputs,       \* cli.Quiet, cli.JSON and TIMEFMT, as main's Output reads them
    exitCode,     \* the argument of os.Exit (-1 before)
    receipts,     \* history: signal number of every receipt, index = receipt id
    duringRun,    \* history: ids of the receipts made while the child was running
    sigCalls,     \* history: every cmd.Process.Signal call [id, sig, ok, late]
    starts,       \* history: number of times the command was started (exec attempts)
    spawned,      \* history: number of child processes created
    sendOnClosed, \* history: a signal was sent on sigChan after close
    tmpl,         \* format: the template
    fm,           \* format: the Metrics argument
    idx,          \* format: loop index i (0-based)
    inPercent,    \* format: inPercent
    out,          \* format: the output buffer
    fpc           \* format: "idle", "loop", "done"

runVars == <<pc, lpc, lsig, sigChan, chanClosed, subscribed, cmdProcess, child,
             waitStatus, processState, runErr, clock, startT, endT,
             metrics, stderr, stdout, inputs, exitCode, receipts, duringRun,
             sigCalls, starts, spawned, sendOnClosed>>
fmtVars == <<tmpl, fm, idx, inPercent, out, fpc>>
vars == <<runVars, fmtVars>>

----------------------------------------------------------------------------
(* Bounds *)

MaxSignals == 2      \* receipts of relayed signals per run
MaxClock == 1        \* ticks of the wall clock per run
MaxLen == 3          \* template length
MaxSpan == 2         \* ticks between start and end in ReportSpec

(* Program constants *)

ChanCap == 1         \* make(chan os.Signal, 1)
LaunchFailCode == 127
SignalBase == 128
TickMs == 500        \* milliseconds per tick of the model's clock

SIGHUP == 1
SIGINT == 2
SIGQUIT == 3
SIGKILL == 9
SIGUSR1 == 10
SIGUSR2 == 12
SIGTERM == 15

signalList == {SIGHUP, SIGINT, SIGQUIT, SIGTERM, SIGUSR1, SIGUSR2}

\* The signals that reach the wrapper in a run, and those that may end the
\* child: relayed ones and one nobody can catch.
ArrivingSignals == {SIGINT, SIGTERM}
KillSignals == {SIGINT, SIGKILL}
\* Exit codes a child may report.
ExitCodes == {0, 1}

\* No signal held.
NoSig == [id |-> 0, sig |-> 0]

\* A wait status: kind "exit" with the exit code, or "signal" with the signal number.
NoStatus == [kind |-> "none", val |-> 0]

\* The wrapper's argument vector (cli.Command): the program and one argument.
args == << <<"s", "l">>, <<"1">> >>

----------------------------------------------------------------------------
(* float64 arithmetic, as the code's durations go through it.  A finite     *)
(* non-negative float64 is [h, l, e]: the value (h * Limb + l) * 2^e, with  *)
(* a 53-bit significand (Norm <= h < 2 * Norm) or all zero.  Every          *)
(* operation rounds to nearest, ties to even, as IEEE 754 does.  The two    *)
(* limbs keep every intermediate value below 2^31.                          *)

Limb == 2^30
Chunk == 2^15
Norm == 2^22

F64Zero == [h |-> 0, l |-> 0, e |-> 0]

F64IsZero(x) == x.h = 0 /\ x.l = 0

\* Two-limb integer helpers: <<h, l>> is h * Limb + l.
Add2(ah, al, bh, bl) ==
    IF al + bl >= Limb THEN <<ah + bh + 1, (al - Limb) + bl>>
    ELSE <<ah + bh, al + bl>>

\* a - b for a >= b
Sub2(ah, al, bh, bl) ==
    IF al < bl THEN <<ah - bh - 1, (al - bl) + Limb>>
    ELSE <<ah - bh, al - bl>>

Geq2(ah, al, bh, bl) == ah > bh \/ (ah = bh /\ al >= bl)

\* (h, l) * 2^k, no overflow check: the caller keeps the result in range.
RECURSIVE Shl2(_, _, _)
Shl2(h, l, k) ==
    IF k = 0 \/ (h = 0 /\ l = 0) THEN <<h, l>>
    ELSE IF k >= 15
    THEN Shl2(h * Chunk + l \div Chunk, (l % Chunk) * Chunk, k - 15)
    ELSE Shl2(2 * h + l \div (Limb \div 2), (l % (Limb \div 2)) * 2, k - 1)

\* (h, l) \div 2^k; s becomes TRUE when a non-zero bit is shifted out.
RECURSIVE Shr2(_, _, _, _)
Shr2(h, l, k, s) ==
    IF k = 0 THEN [h |-> h, l |-> l, s |-> s]
    ELSE IF h = 0 /\ l = 0 THEN [h |-> 0, l |-> 0, s |-> s]
    ELSE IF k >= 15
    THEN Shr2(h \div Chunk, (h % Chunk) * Chunk + l \div Chunk, k - 15,
              s \/ l % Chunk # 0)
    ELSE Shr2(h \div 2, (h % 2) * (Limb \div 2) + l \div 2, k - 1, s \/ l % 2 = 1)

\* (h, l) * c for a small positive integer c, by doubling and adding.
RECURSIVE MulSmall2(_, _, _)
MulSmall2(h, l, c) ==
    IF c = 1 THEN <<h, l>>
    ELSE LET half == MulSmall2(h, l, c \div 2)
             dbl == Add2(half[1], half[2], half[1], half[2])
         IN  IF c % 2 = 1 THEN Add2(dbl[1], dbl[2], h, l) ELSE dbl

\* The float64 nearest to (h * Limb + l + (a fraction in (0,1) when sticky))
\* * 2^e: round to nearest, ties to even.
RECURSIVE F64Round(_, _, _, _)
F64Round(h, l, e, sticky) ==
    IF h = 0 /\ l = 0 THEN F64Zero
    ELSE IF h >= 4 * Norm
    THEN F64Round(h \div 2, (h % 2) * (Limb \div 2) + l \div 2, e + 1,
                  sticky \/ l % 2 = 1)
    ELSE IF h >= 2 * Norm
    THEN LET mh == h \div 2
             ml == (h % 2) * (Limb \div 2) + l \div 2
             up == l % 2 = 1 /\ (sticky \/ ml % 2 = 1)
             r == IF up THEN Add2(mh, ml, 0, 1) ELSE <<mh, ml>>
         IN  IF r[1] = 2 * Norm THEN [h |-> Norm, l |-> 0, e |-> e + 2]
             ELSE [h |-> r[1], l |-> r[2], e |-> e + 1]
    ELSE IF h >= Norm THEN [h |-> h, l |-> l, e |-> e]
    ELSE IF h < 128
    THEN LET r == Shl2(h, l, 15) IN F64Round(r[1], r[2], e - 15, sticky)
    ELSE LET r == Shl2(h, l, 1) IN F64Round(r[1], r[2], e - 1, sticky)

\* float64(n) for an integer 0 <= n < 2^31
F64FromInt(n) == F64Round(n \div Limb, n % Limb, 0, FALSE)

\* x + y
F64Add(x, y) ==
    IF F64IsZero(x) THEN y
    ELSE IF F64IsZero(y) THEN x
    ELSE LET big == IF x.e >= y.e THEN x ELSE y
             small == IF x.e >= y.e THEN y ELSE x
             b == Shl2(big.h, big.l, 3)
             s0 == Shl2(small.h, small.l, 3)
             s == Shr2(s0[1], s0[2], big.e - small.e, FALSE)
             sum == Add2(b[1], b[2], s.h, s.l)
         IN  F64Round(sum[1], sum[2], big.e - 3, s.s)

\* x - y for x >= y
F64Sub(x, y) ==
    IF F64IsZero(y) THEN x
    ELSE LET b == Shl2(x.h, x.l, 3)
             s0 == Shl2(y.h, y.l, 3)
             s == Shr2(s0[1], s0[2], x.e - y.e, FALSE)
             d0 == Sub2(b[1], b[2], s.h, s.l)
             d == IF s.s THEN Sub2(d0[1], d0[2], 0, 1) ELSE d0
         IN  F64Round(d[1], d[2], x.e - 3, s.s)

\* Binary long division of (rh, rl) by (bh, bl), one quotient bit per step,
\* until the quotient (qh, ql) has 54 bits: 53 and the rounding bit.  Once
\* the remainder is zero the remaining bits are zeros, 15 at a time.
RECURSIVE DivLoop(_, _, _, _, _, _)
DivLoop(rh, rl, qh, ql, bh, bl) ==
    IF qh >= 2 * Norm THEN [h |-> qh, l |-> ql, s |-> rh # 0 \/ rl # 0]
    ELSE IF rh = 0 /\ rl = 0 /\ qh < 512
    THEN LET q == Shl2(qh, ql, 15) IN DivLoop(0, 0, q[1], q[2], bh, bl)
    ELSE LET r2 == Add2(rh, rl, rh, rl)
             q2 == Add2(qh, ql, qh, ql)
         IN  IF Geq2(r2[1], r2[2], bh, bl)
             THEN LET r == Sub2(r2[1], r2[2], bh, bl)
                  IN  DivLoop(r[1], r[2], q2[1], q2[2] + 1, bh, bl)
             ELSE DivLoop(r2[1], r2[2], q2[1], q2[2], bh, bl)

\* x / y for y > 0
F64Div(x, y) ==
    IF F64IsZero(x) THEN F64Zero
    ELSE IF Geq2(x.h, x.l, y.h, y.l)
    THEN LET r0 == Sub2(x.h, x.l, y.h, y.l)
             q == DivLoop(r0[1], r0[2], 0, 1, y.h, y.l)
         IN  F64Round(q.h, q.l, x.e - y.e - 53, q.s)
    ELSE LET q == DivLoop(x.h, x.l, 0, 0, y.h, y.l)
         IN  F64Round(q.h, q.l, x.e - y.e - 54, q.s)

\* x * c for a small positive integer c
F64MulInt(x, c) ==
    IF F64IsZero(x) THEN F64Zero
    ELSE LET p == MulSmall2(x.h, x.l, c) IN F64Round(p[1], p[2], x.e, FALSE)

\* int(x): truncation toward zero, for x < 2^31
F64Trunc(x) ==
    IF x.e >= 0 THEN x.h * Limb + x.l
    ELSE LET r == Shr2(x.h, x.l, -x.e, FALSE) IN r.h * Limb + r.l

\* The integer nearest to x * c * 2^k (ties to even): the digits strconv
\* produces for x with a fixed number of decimals, c * 2^k = 10^decimals.
F64Scaled(x, c, k) ==
    IF F64IsZero(x) THEN 0
    ELSE LET p == MulSmall2(x.h, x.l, c)
             r == Shr2(p[1], p[2], (-x.e) - k - 1, FALSE)
             n == (r.h * Limb + r.l) \div 2
             up == r.l % 2 = 1 /\ (r.s \/ n % 2 = 1)
         IN  IF up THEN n + 1 ELSE n

\* time.Duration.Seconds(): float64(sec) + float64(nsec) / 1e9
Seconds(ms) ==
    F64Add(F64FromInt(ms \div 1000),
           F64Div(F64FromInt((ms % 1000) * 1000000), F64FromInt(1000000000)))

----------------------------------------------------------------------------
(* Metrics and the resource-usage record *)

\* The zero value of the Metrics struct.
ZeroMetrics ==
    [Command |-> <<>>, UserTime |-> 0, SystemTime |-> 0, ElapsedTime |-> 0,
     CPUPercent |-> 0, MaxRSS |-> 0, SharedRSS |-> 0, UnsharedRSS |-> 0,
     UnsharedData |-> 0, UnsharedStk |-> 0, PageFaults |-> 0, PageReclaims |-> 0,
     Swaps |-> 0, BlockInput |-> 0, BlockOutput |-> 0, MsgsSent |-> 0,
     MsgsRecv |-> 0, Signals |-> 0, VCtxSwitches |-> 0, ICtxSwitches |-> 0]

\* syscall.Rusage values the kernel may report for a child (times in ms).
\* The run reports BusyUsage; ReportSpec draws from ReportUsages.
ZeroUsage ==
    [Utime |-> 0, Stime |-> 0, Maxrss |-> 0, Ixrss |-> 0, Idrss |-> 0, Isrss |-> 0,
     Majflt |-> 0, Minflt |-> 0, Nswap |-> 0, Inblock |-> 0, Oublock |-> 0,
     Msgsnd |-> 0, Msgrcv |-> 0, Nsignals |-> 0, Nvcsw |-> 0, Nivcsw |-> 0]
BusyUsage ==
    [Utime |-> 500, Stime |-> 250, Maxrss |-> 1024, Ixrss |-> 512, Idrss |-> 256,
     Isrss |-> 128, Majflt |-> 10, Minflt |-> 20, Nswap |-> 5, Inblock |-> 100,
     Oublock |-> 200, Msgsnd |-> 60, Msgrcv |-> 50, Nsignals |-> 2, Nvcsw |-> 15,
     Nivcsw |-> 25]
Usages == {BusyUsage}

\* cmd.ProcessState == nil
NoState == [set |-> FALSE, status |-> NoStatus, native |-> FALSE, usage |-> ZeroUsage]

\* strings.Join(args, " ")
RECURSIVE StringsJoin(_)
StringsJoin(words) ==
    IF Len(words) = 0 THEN <<>>
    ELSE IF Len(words) = 1 THEN words[1]
    ELSE words[1] \o <<" ">> \o StringsJoin(Tail(words))

\* calculateCPUPercent: int((totalCPU / realSec) * 100) in float64, durations
\* in ms.
calculateCPUPercent(user, sys, elapsed) ==
    LET totalCPU == F64Add(Seconds(user), Seconds(sys))
        realSec == Seconds(elapsed)
    IN  IF ~F64IsZero(realSec)
        THEN F64Trunc(F64MulInt(F64Div(totalCPU, realSec), 100))
        ELSE 0

\* populateUsage that also fills UnsharedRSS, from ru_idrss.
populateUsage_FillsUnsharedRSS(m, state) ==
    IF state.native
    THEN [m EXCEPT !.MaxRSS = state.usage.Maxrss,
                   !.SharedRSS = state.usage.Ixrss,
                   !.UnsharedRSS = state.usage.Idrss,
                   !.UnsharedData = state.usage.Idrss,
                   !.UnsharedStk = state.usage.Isrss,
                   !.PageFaults = state.usage.Majflt,
                   !.PageReclaims = state.usage.Minflt,
                   !.Swaps = state.usage.Nswap,
                   !.BlockInput = state.usage.Inblock,
                   !.BlockOutput = state.usage.Oublock,
                   !.MsgsSent = state.usage.Msgsnd,
                   !.MsgsRecv = state.usage.Msgrcv,
                   !.Signals = state.usage.Nsignals,
                   !.VCtxSwitches = state.usage.Nvcsw,
                   !.ICtxSwitches = state.usage.Nivcsw]
    ELSE m

\* populateUsage (unix): copies the counters when the usage record is native.
populateUsage(m, state) ==
    IF state.native
    THEN [m EXCEPT !.MaxRSS = state.usage.Maxrss,
                   !.SharedRSS = state.usage.Ixrss,
                   !.UnsharedData = state.usage.Idrss,
                   !.UnsharedStk = state.usage.Isrss,
                   !.PageFaults = state.usage.Majflt,
                   !.PageReclaims = state.usage.Minflt,
                   !.Swaps = state.usage.Nswap,
                   !.BlockInput = state.usage.Inblock,
                   !.BlockOutput = state.usage.Oublock,
                   !.MsgsSent = state.usage.Msgsnd,
                   !.MsgsRecv = state.usage.Msgrcv,
                   !.Signals = state.usage.Nsignals,
                   !.VCtxSwitches = state.usage.Nvcsw,
                   !.ICtxSwitches = state.usage.Nivcsw]
    ELSE m

\* extractMetrics that gives up when there is no process state.
extractMetrics_NeedsState(state, start, end, argv) ==
    LET elapsed == (end - start) * TickMs
        m == [ZeroMetrics EXCEPT !.Command = StringsJoin(argv),
                                 !.ElapsedTime = elapsed]
    IN  IF state.set
        THEN LET u == state.usage.Utime
                 s == state.usage.Stime
             IN  populateUsage([m EXCEPT !.UserTime = u, !.SystemTime = s,
                                  !.CPUPercent = calculateCPUPercent(u, s, elapsed)],
                               state)
        ELSE ZeroMetrics

\* extractMetrics that subtracts the end from the start.
extractMetrics_Backwards(state, start, end, argv) ==
    LET elapsed == (start - end) * TickMs
        m == [ZeroMetrics EXCEPT !.Command = StringsJoin(argv),
                                 !.ElapsedTime = elapsed]
    IN  IF state.set
        THEN LET u == state.usage.Utime
                 s == state.usage.Stime
             IN  populateUsage([m EXCEPT !.UserTime = u, !.SystemTime = s,
                                  !.CPUPercent = calculateCPUPercent(u, s, -elapsed)],
                               state)
        ELSE m

\* extractMetrics(cmd, start, end, args)
extractMetrics(state, start, end, argv) ==
    LET elapsed == (end - start) * TickMs
        m == [ZeroMetrics EXCEPT !.Command = StringsJoin(argv),
                                 !.ElapsedTime = elapsed]
    IN  IF state.set
        THEN LET u == state.usage.Utime
                 s == state.usage.Stime
             IN  populateUsage([m EXCEPT !.UserTime = u, !.SystemTime = s,
                                  !.CPUPercent = calculateCPUPercent(u, s, elapsed)],
                               state)
        ELSE m

----------------------------------------------------------------------------
(* The template interpreter.  Strings are sequences of one-character        *)
(* strings (the bytes the code iterates over); durations are in ms.         *)

Digit == <<"0", "1", "2", "3", "4", "5", "6", "7", "8", "9">>

RECURSIVE FormatUint(_)
FormatUint(n) ==
    IF n < 10 THEN <<Digit[n + 1]>>
    ELSE FormatUint(n \div 10) \o <<Digit[(n % 10) + 1]>>

\* strconv.FormatInt(n, 10), strconv.Itoa(n)
FormatInt(n) == IF n < 0 THEN <<"-">> \o FormatUint(-n) ELSE FormatUint(n)

\* Left-pads text with "0" to width w (the 0 flag of fmt).
RECURSIVE ZeroPad(_, _)
ZeroPad(text, w) == IF Len(text) >= w THEN text ELSE ZeroPad(<<"0">> \o text, w)

\* fmt's "%.2f" of a float64 x >= 0: the decimal nearest to the float's exact
\* value, ties to even.
FormatFixed2(x) ==
    LET cs == F64Scaled(x, 25, 2)
    IN  FormatUint(cs \div 100) \o <<".", Digit[((cs \div 10) % 10) + 1],
                                      Digit[(cs % 10) + 1]>>

\* fmt's "%.3f" of a float64 x >= 0
FormatFixed3(x) ==
    LET ms == F64Scaled(x, 125, 3)
    IN  FormatUint(ms \div 1000) \o <<".", Digit[((ms \div 100) % 10) + 1],
                                      Digit[((ms \div 10) % 10) + 1],
                                      Digit[(ms % 10) + 1]>>

\* FormatSeconds without the unit.
FormatSeconds_NoUnit(ms) == FormatFixed2(Seconds(ms))

\* fmt.Fprintf(out, "%.2fs", d.Seconds())
FormatSeconds(ms) == FormatFixed2(Seconds(ms)) \o <<"s">>

\* handleStar that never takes the hours branch.
handleStar_NoHours(m, i, t) ==
    IF i + 1 < Len(t) /\ t[i + 2] = "E"
    THEN LET d == m.ElapsedTime
             mins == (d \div 60000) % 60
             secs == F64Sub(Seconds(d), F64FromInt((d \div 60000) * 60))
         IN  [idx |-> i + 1,
              text |-> FormatInt(mins) \o <<":">> \o ZeroPad(FormatFixed2(secs), 5)]
    ELSE [idx |-> i, text |-> <<"*">>]

\* handleStar that skips the character after a '*' that is no "%*E".
handleStar_SkipsNext(m, i, t) ==
    IF i + 1 < Len(t) /\ t[i + 2] = "E"
    THEN LET d == m.ElapsedTime
             hours == d \div 3600000
             mins == (d \div 60000) % 60
             secs == F64Sub(Seconds(d), F64FromInt((d \div 60000) * 60))
         IN  [idx |-> i + 1,
              text |-> IF hours > 0
                       THEN FormatInt(hours) \o <<":">> \o ZeroPad(FormatInt(mins), 2)
                            \o <<":">> \o ZeroPad(FormatFixed2(secs), 5)
                       ELSE FormatInt(mins) \o <<":">> \o ZeroPad(FormatFixed2(secs), 5)]
    ELSE [idx |-> i + 1, text |-> <<"*">>]

\* handleStar: "%*E" when 'E' follows the '*' (and the index moves past it),
\* a literal '*' otherwise.  i is the 0-based index of the '*'.  int(d.Hours())
\* and int(d.Minutes()) are whole quotients: for a duration in whole ms the
\* float's error is far below the distance to the next integer.
handleStar(m, i, t) ==
    IF i + 1 < Len(t) /\ t[i + 2] = "E"
    THEN LET d == m.ElapsedTime
             hours == d \div 3600000
             mins == (d \div 60000) % 60
             secs == F64Sub(Seconds(d), F64FromInt((d \div 60000) * 60))
         IN  [idx |-> i + 1,
              text |-> IF hours > 0
                       THEN FormatInt(hours) \o <<":">> \o ZeroPad(FormatInt(mins), 2)
                            \o <<":">> \o ZeroPad(FormatFixed2(secs), 5)
                       ELSE FormatInt(mins) \o <<":">> \o ZeroPad(FormatFixed2(secs), 5)]
    ELSE [idx |-> i, text |-> <<"*">>]

\* handleIntSpecifier whose %K leaves the stack out of the sum.
handleIntSpecifier_ShortK(char, m) ==
    CASE char = "M" -> [handled |-> TRUE, text |-> FormatInt(m.MaxRSS)]
      [] char = "W" -> [handled |-> TRUE, text |-> FormatInt(m.Swaps)]
      [] char = "X" -> [handled |-> TRUE, text |-> FormatInt(m.SharedRSS)]
      [] char = "D" -> [handled |-> TRUE,
                        text |-> FormatInt(m.UnsharedData + m.UnsharedStk)]
      [] char = "K" -> [handled |-> TRUE,
                        text |-> FormatInt(m.SharedRSS + m.UnsharedData)]
      [] char = "F" -> [handled |-> TRUE, text |-> FormatInt(m.PageFaults)]
      [] char = "R" -> [handled |-> TRUE, text |-> FormatInt(m.PageReclaims)]
      [] char = "I" -> [handled |-> TRUE, text |-> FormatInt(m.BlockInput)]
      [] char = "O" -> [handled |-> TRUE, text |-> FormatInt(m.BlockOutput)]
      [] char = "r" -> [handled |-> TRUE, text |-> FormatInt(m.MsgsRecv)]
      [] char = "s" -> [handled |-> TRUE, text |-> FormatInt(m.MsgsSent)]
      [] char = "k" -> [handled |-> TRUE, text |-> FormatInt(m.Signals)]
      [] char = "w" -> [handled |-> TRUE, text |-> FormatInt(m.VCtxSwitches)]
      [] char = "c" -> [handled |-> TRUE, text |-> FormatInt(m.ICtxSwitches)]
      [] OTHER -> [handled |-> FALSE, text |-> <<>>]

\* handleIntSpecifier: the integer counters; handled is FALSE for any other
\* character.
handleIntSpecifier(char, m) ==
    CASE char = "M" -> [handled |-> TRUE, text |-> FormatInt(m.MaxRSS)]
      [] char = "W" -> [handled |-> TRUE, text |-> FormatInt(m.Swaps)]
      [] char = "X" -> [handled |-> TRUE, text |-> FormatInt(m.SharedRSS)]
      [] char = "D" -> [handled |-> TRUE,
                        text |-> FormatInt(m.UnsharedData + m.UnsharedStk)]
      [] char = "K" -> [handled |-> TRUE,
                        text |-> FormatInt(m.SharedRSS + m.UnsharedData + m.UnsharedStk)]
      [] char = "F" -> [handled |-> TRUE, text |-> FormatInt(m.PageFaults)]
      [] char = "R" -> [handled |-> TRUE, text |-> FormatInt(m.PageReclaims)]
      [] char = "I" -> [handled |-> TRUE, text |-> FormatInt(m.BlockInput)]
      [] char = "O" -> [handled |-> TRUE, text |-> FormatInt(m.BlockOutput)]
      [] char = "r" -> [handled |-> TRUE, text |-> FormatInt(m.MsgsRecv)]
      [] char = "s" -> [handled |-> TRUE, text |-> FormatInt(m.MsgsSent)]
      [] char = "k" -> [handled |-> TRUE, text |-> FormatInt(m.Signals)]
      [] char = "w" -> [handled |-> TRUE, text |-> FormatInt(m.VCtxSwitches)]
      [] char = "c" -> [handled |-> TRUE, text |-> FormatInt(m.ICtxSwitches)]
      [] OTHER -> [handled |-> FALSE, text |-> <<>>]

\* case '*': handleStar(out, m, idx, tmpl): handled, at the index handleStar
\* leaves and with the text it writes.
StarHandled(r) == [handled |-> TRUE, idx |-> r.idx, text |-> r.text]

\* default: return handleIntSpecifier(out, char, m), the index unchanged.
IntHandled(r, i) == [handled |-> r.handled, idx |-> i, text |-> r.text]

\* handleSpecifier that does not know "%%".
handleSpecifier_PercentOpens(char, m, i, t) ==
    CASE char = "%" -> [handled |-> FALSE, idx |-> i, text |-> <<>>]
      [] char = "J" -> [handled |-> TRUE, idx |-> i, text |-> m.Command]
      [] char = "U" -> [handled |-> TRUE, idx |-> i, text |-> FormatSeconds(m.UserTime)]
      [] char = "S" -> [handled |-> TRUE, idx |-> i, text |-> FormatSeconds(m.SystemTime)]
      [] char = "E" -> [handled |-> TRUE, idx |-> i, text |-> FormatSeconds(m.ElapsedTime)]
      [] char = "*" -> StarHandled(handleStar(m, i, t))
      [] char = "P" -> [handled |-> TRUE, idx |-> i,
                        text |-> FormatInt(m.CPUPercent) \o <<"%">>]
      [] OTHER -> IntHandled(handleIntSpecifier(char, m), i)

\* handleSpecifier: what the character after a '%' writes, whether it was
\* handled, and the loop index afterwards.
handleSpecifier(char, m, i, t) ==
    CASE char = "%" -> [handled |-> TRUE, idx |-> i, text |-> <<"%">>]
      [] char = "J" -> [handled |-> TRUE, idx |-> i, text |-> m.Command]
      [] char = "U" -> [handled |-> TRUE, idx |-> i, text |-> FormatSeconds(m.UserTime)]
      [] char = "S" -> [handled |-> TRUE, idx |-> i, text |-> FormatSeconds(m.SystemTime)]
      [] char = "E" -> [handled |-> TRUE, idx |-> i, text |-> FormatSeconds(m.ElapsedTime)]
      [] char = "*" -> StarHandled(handleStar(m, i, t))
      [] char = "P" -> [handled |-> TRUE, idx |-> i,
                        text |-> FormatInt(m.CPUPercent) \o <<"%">>]
      [] OTHER -> IntHandled(handleIntSpecifier(char, m), i)

\* WriteLiteral that swallows a '*' outside a specifier.
WriteLiteral_SwallowsStar(buf, char) == IF char = "*" THEN buf ELSE Append(buf, char)

\* format, literal mode: out.WriteByte(char)
WriteLiteral(buf, char) == Append(buf, char)

\* WriteUnhandled that forgets the '%'.
WriteUnhandled_NoPercent(buf, char) == Append(buf, char)

\* format, if !handled: out.WriteByte('%'); out.WriteByte(char)
WriteUnhandled(buf, char) == buf \o <<"%", char>>

\* format, specifier mode, once handleSpecifier has returned r: what it wrote
\* stays, or "%" and the character are written; inPercent = false; i++.
AfterSpecifier(buf, char, r) ==
    [idx |-> r.idx + 1,
     inPercent |-> FALSE,
     out |-> IF r.handled THEN buf \o r.text ELSE WriteUnhandled(buf, char)]

\* One iteration of format's loop, from st = [idx, inPercent, out], with the
\* i++ of the for statement.
FormatIter(t, m, st) ==
    LET char == t[st.idx + 1]
    IN  IF st.inPercent
        THEN AfterSpecifier(st.out, char, handleSpecifier(char, m, st.idx, t))
        ELSE IF char = "%"
        THEN [idx |-> st.idx + 1, inPercent |-> TRUE, out |-> st.out]
        ELSE [idx |-> st.idx + 1, inPercent |-> FALSE,
              out |-> WriteLiteral(st.out, char)]

\* FormatEnd that drops a '%' left open.
FormatEnd_DropsPercent(st) == st.out

\* After the loop: a '%' left open at the end of the template is written.
FormatEnd(st) == IF st.inPercent THEN Append(st.out, "%") ELSE st.out

\* format(tmpl, m): the loop run to its end.
RECURSIVE FormatFrom(_, _, _)
FormatFrom(t, m, st) ==
    IF st.idx < Len(t) THEN FormatFrom(t, m, FormatIter(t, m, st)) ELSE FormatEnd(st)

format(t, m) == FormatFrom(t, m, [idx |-> 0, inPercent |-> FALSE, out |-> <<>>])

----------------------------------------------------------------------------
(* The run: main and runCommand *)

\* The statements of main after runCommand has returned.
AfterReturn == {"output", "exitcode", "exited"}

\* signal.Notify(sigChan, signalList()...), after sigChan := make(chan os.Signal, 1)
SignalNotify ==
    /\ pc = "notify"
    /\ subscribed' = TRUE
    /\ pc' = "go"
    /\ UNCHANGED <<lpc, lsig, sigChan, chanClosed, cmdProcess, child,
                   waitStatus, processState, runErr, clock, startT, endT,
                   metrics, stderr, stdout, inputs, exitCode, receipts,
                   duringRun, sigCalls, starts, spawned, sendOnClosed,
                   fmtVars>>

\* go func() { for sig := range sigChan { ... } }()
GoListener ==
    /\ pc = "go"
    /\ lpc' = "recv"
    /\ pc' = "start"
    /\ UNCHANGED <<lsig, sigChan, chanClosed, subscribed, cmdProcess, child,
                   waitStatus, processState, runErr, clock, startT, endT,
                   metrics, stderr, stdout, inputs, exitCode, receipts,
                   duringRun, sigCalls, starts, spawned, sendOnClosed,
                   fmtVars>>

\* start := time.Now()
TakeStart ==
    /\ pc = "start"
    /\ startT' = clock
    /\ pc' = "run"
    /\ UNCHANGED <<lpc, lsig, sigChan, chanClosed, subscribed, cmdProcess,
                   child, waitStatus, processState, runErr, clock, endT,
                   metrics, stderr, stdout, inputs, exitCode, receipts,
                   duringRun, sigCalls, starts, spawned, sendOnClosed,
                   fmtVars>>

\* CmdStart that tries a failed launch a second time.
CmdStart_Retry ==
    /\ pc = "run"
    /\ starts' = starts + 1
    /\ \/ /\ cmdProcess' = "set"
          /\ child' = "running"
          /\ spawned' = spawned + 1
          /\ pc' = "wait"
          /\ UNCHANGED runErr
       \/ /\ runErr' = "launch"
          /\ pc' = IF starts = 0 THEN "run" ELSE "end"
          /\ UNCHANGED <<cmdProcess, child, spawned>>
    /\ UNCHANGED <<lpc, lsig, sigChan, chanClosed, subscribed, waitStatus,
                   processState, clock, startT, endT, metrics, stderr, stdout,
                   inputs, exitCode, receipts, duringRun, sigCalls,
                   sendOnClosed, fmtVars>>

\* cmd.Run(), first half (cmd.Start): the launch succeeds and sets cmd.Process,
\* or fails and Run returns the error at once.
CmdStart ==
    /\ pc = "run"
    /\ starts' = starts + 1
    /\ \/ /\ cmdProcess' = "set"
          /\ child' = "running"
          /\ spawned' = spawned + 1
          /\ pc' = "wait"
          /\ UNCHANGED runErr
       \/ /\ runErr' = "launch"
          /\ pc' = "end"
          /\ UNCHANGED <<cmdProcess, child, spawned>>
    /\ UNCHANGED <<lpc, lsig, sigChan, chanClosed, subscribed, waitStatus,
                   processState, clock, startT, endT, metrics, stderr, stdout,
                   inputs, exitCode, receipts, duringRun, sigCalls,
                   sendOnClosed, fmtVars>>

\* cmd.Run(), second half (cmd.Wait): blocks until the child has ended, reaps
\* it, fills cmd.ProcessState; the error is nil for exit code 0 and an
\* *exec.ExitError otherwise.
CmdWait ==
    /\ pc = "wait"
    /\ child = "zombie"
    /\ child' = "reaped"
    /\ \E u \in Usages :
          processState' = [set |-> TRUE, status |-> waitStatus, native |-> TRUE,
                           usage |-> u]
    /\ runErr' = IF waitStatus.kind = "exit" /\ waitStatus.val = 0 THEN "nil" ELSE "exit"
    /\ pc' = "end"
    /\ UNCHANGED <<lpc, lsig, sigChan, chanClosed, subscribed, cmdProcess,
                   waitStatus, clock, startT, endT, metrics, stderr, stdout,
                   inputs, exitCode, receipts, duringRun, sigCalls, starts,
                   spawned, sendOnClosed, fmtVars>>

\* end := time.Now()
TakeEnd ==
    /\ pc = "end"
    /\ endT' = clock
    /\ pc' = "stop"
    /\ UNCHANGED <<lpc, lsig, sigChan, chanClosed, subscribed, cmdProcess,
                   child, waitStatus, processState, runErr, clock, startT,
                   metrics, stderr, stdout, inputs, exitCode, receipts,
                   duringRun, sigCalls, starts, spawned, sendOnClosed,
                   fmtVars>>

\* SignalStop that leaves the subscription in force.
SignalStop_StillSubscribed ==
    /\ pc = "stop"
    /\ pc' = "close"
    /\ UNCHANGED <<lpc, lsig, sigChan, chanClosed, subscribed, cmdProcess,
                   child, waitStatus, processState, runErr, clock, startT,
                   endT, metrics, stderr, stdout, inputs, exitCode, receipts,
                   duringRun, sigCalls, starts, spawned, sendOnClosed,
                   fmtVars>>

\* signal.Stop(sigChan)
SignalStop ==
    /\ pc = "stop"
    /\ subscribed' = FALSE
    /\ pc' = "close"
    /\ UNCHANGED <<lpc, lsig, sigChan, chanClosed, cmdProcess, child,
                   waitStatus, processState, runErr, clock, startT, endT,
                   metrics, stderr, stdout, inputs, exitCode, receipts,
                   duringRun, sigCalls, starts, spawned, sendOnClosed,
                   fmtVars>>

\* close(sigChan)
CloseChan ==
    /\ pc = "close"
    /\ chanClosed' = TRUE
    /\ pc' = "extract"
    /\ UNCHANGED <<lpc, lsig, sigChan, subscribed, cmdProcess, child,
                   waitStatus, processState, runErr, clock, startT, endT,
                   metrics, stderr, stdout, inputs, exitCode, receipts,
                   duringRun, sigCalls, starts, spawned, sendOnClosed,
                   fmtVars>>

\* return extractMetrics(cmd, start, end, args), err
ReturnMetrics ==
    /\ pc = "extract"
    /\ metrics' = extractMetrics(processState, startT, endT, args)
    /\ pc' = "output"
    /\ UNCHANGED <<lpc, lsig, sigChan, chanClosed, subscribed, cmdProcess,
                   child, waitStatus, processState, runErr, clock, startT,
                   endT, stderr, stdout, inputs, exitCode, receipts,
                   duringRun, sigCalls, starts, spawned, sendOnClosed,
                   fmtVars>>

\* The values of TIMEFMT a run is given: unset or empty, and a template.
CustomTemplate == <<"%", "P", " ", "%", "*", "E">>
TimeFmts == {<<>>, CustomTemplate}

\* The flags and environment of a run: every combination of cli.Quiet,
\* cli.JSON and TIMEFMT that Output tells apart.
Inputs ==
    {[Quiet |-> TRUE, JSON |-> TRUE, TIMEFMT |-> CustomTemplate],
     [Quiet |-> FALSE, JSON |-> TRUE, TIMEFMT |-> CustomTemplate]}
        \cup {[Quiet |-> FALSE, JSON |-> FALSE, TIMEFMT |-> f] : f \in TimeFmts}

\* Before main has read them.
NoInputs == [Quiet |-> FALSE, JSON |-> FALSE, TIMEFMT |-> <<>>]

\* lipgloss Style.Render on an output that is no terminal: the text, with no
\* escape sequences around it.
Render(style, text) == text

\* printSummary(m): the bytes it writes to os.Stderr.  With TIMEFMT set, the
\* rendering of that template and a newline (fmt.Fprintln); otherwise the
\* styled line, whose elapsed time is "%.3fs" of the seconds.
printSummary(timeFmt, m) ==
    IF timeFmt # <<>>
    THEN Append(format(timeFmt, m), "\n")
    ELSE Render("faint", m.Command) \o <<" ", " ">>
         \o Render("blue", FormatFixed2(Seconds(m.UserTime)) \o <<"s">>)
         \o <<" ", "u", "s", "e", "r", " ">>
         \o Render("blue", FormatFixed2(Seconds(m.SystemTime)) \o <<"s">>)
         \o <<" ", "s", "y", "s", "t", "e", "m", " ">>
         \o Render("green", FormatInt(m.CPUPercent) \o <<"%">>)
         \o <<" ", "c", "p", "u", " ">>
         \o Render("bold", FormatFixed3(Seconds(m.ElapsedTime)) \o <<"s">>)
         \o <<" ", "t", "o", "t", "a", "l", "\n">>

\* Output that prints the report on os.Stdout.
Output_ToStdout ==
    /\ pc = "output"
    /\ \E in \in Inputs :
          /\ inputs' = in
          /\ stdout' = IF in.Quiet THEN stdout
                       ELSE IF in.JSON
                       THEN Append(stdout, [kind |-> "json", m |-> metrics])
                       ELSE Append(stdout, [kind |-> "summary", m |-> metrics])
    /\ pc' = "exitcode"
    /\ UNCHANGED <<lpc, lsig, sigChan, chanClosed, subscribed, cmdProcess, child,
                   waitStatus, processState, runErr, clock, startT, endT, metrics,
                   stderr, exitCode, receipts, duringRun, sigCalls, starts,
                   spawned, sendOnClosed, fmtVars>>

\* main, "5. Output", for the flags and the TIMEFMT of the run: nothing when
\* Quiet, the JSON document when JSON, else printSummary(metrics); all of it
\* goes to os.Stderr.  An entry of stderr is one write: its kind and the
\* Metrics it renders (the bytes of a summary are printSummary of TIMEFMT and
\* those Metrics).
Output ==
    /\ pc = "output"
    /\ \E in \in Inputs :
          /\ inputs' = in
          /\ stderr' = IF in.Quiet THEN stderr
                       ELSE IF in.JSON
                       THEN Append(stderr, [kind |-> "json", m |-> metrics])
                       ELSE Append(stderr, [kind |-> "summary", m |-> metrics])
    /\ pc' = "exitcode"
    /\ UNCHANGED <<lpc, lsig, sigChan, chanClosed, subscribed, cmdProcess, child,
                   waitStatus, processState, runErr, clock, startT, endT, metrics,
                   stdout, exitCode, receipts, duringRun, sigCalls, starts,
                   spawned, sendOnClosed, fmtVars>>

\* exitErr.ExitCode(): the exit code of an exited process, -1 of a signalled one.
ExitErrorCode(status) == IF status.kind = "exit" THEN status.val ELSE -1

\* ExitCodeFor without the status.Signaled() branch.
ExitCodeFor_NoSignalBranch(err, state) ==
    IF err = "nil" THEN 0
    ELSE IF err = "exit" THEN ExitErrorCode(state.status) % 256
    ELSE LaunchFailCode

\* ExitCodeFor that treats a launch failure like any other failure.
ExitCodeFor_LaunchAsOne(err, state) ==
    IF err = "nil" THEN 0
    ELSE IF err = "exit"
         THEN IF state.status.kind = "signal"
              THEN SignalBase + state.status.val
              ELSE ExitErrorCode(state.status)
         ELSE 1

\* main, "6. Exit Code": the argument of os.Exit for the error cmd.Run returned.
ExitCodeFor(err, state) ==
    IF err = "nil" THEN 0
    ELSE IF err = "exit"
         THEN IF state.status.kind = "signal"
              THEN SignalBase + state.status.val
              ELSE ExitErrorCode(state.status)
         ELSE LaunchFailCode

\* main, "6. Exit Code": os.Exit; an error that is not an *exec.ExitError is
\* reported on os.Stderr first.  os.Exit ends every goroutine.
MainExit ==
    /\ pc = "exitcode"
    /\ exitCode' = ExitCodeFor(runErr, processState)
    /\ stderr' = IF runErr = "launch"
                 THEN Append(stderr, [kind |-> "error", m |-> metrics])
                 ELSE stderr
    /\ pc' = "exited"
    /\ UNCHANGED <<lpc, lsig, sigChan, chanClosed, subscribed, cmdProcess, child,
                   waitStatus, processState, runErr, clock, startT, endT, metrics,
                   stdout, inputs, receipts, duringRun, sigCalls, starts, spawned,
                   sendOnClosed, fmtVars>>

----------------------------------------------------------------------------
(* The relay listener goroutine *)

\* for sig := range sigChan: takes the oldest buffered signal; the loop ends
\* when the channel is closed and drained.
ListenerRecv ==
    /\ lpc = "recv"
    /\ pc # "exited"
    /\ \/ /\ sigChan # <<>>
          /\ lsig' = Head(sigChan)
          /\ sigChan' = Tail(sigChan)
          /\ lpc' = "check"
       \/ /\ sigChan = <<>>
          /\ chanClosed
          /\ lpc' = "done"
          /\ UNCHANGED <<lsig, sigChan>>
    /\ UNCHANGED <<pc, chanClosed, subscribed, cmdProcess, child, waitStatus,
                   processState, runErr, clock, startT, endT, metrics, stderr,
                   stdout, inputs, exitCode, receipts, duringRun, sigCalls,
                   starts, spawned, sendOnClosed, fmtVars>>

\* The values the listener's unsynchronised read of cmd.Process may yield:
\* cmd.Start writes the field in the main goroutine with no happens-before
\* edge to the listener, so the read may still see nil after the write.
ProcessSeenByListener == IF cmdProcess = "set" THEN {"set", "nil"} ELSE {"nil"}

\* ListenerCheck that puts a signal it cannot forward back on the channel.
ListenerCheck_Requeues ==
    /\ lpc = "check"
    /\ pc # "exited"
    /\ \E seen \in ProcessSeenByListener :
          IF seen = "set"
          THEN lpc' = "signal" /\ UNCHANGED <<lsig, sigChan>>
          ELSE lpc' = "recv" /\ lsig' = NoSig /\ sigChan' = Append(sigChan, lsig)
    /\ UNCHANGED <<pc, chanClosed, subscribed, cmdProcess, child,
                   waitStatus, processState, runErr, clock, startT, endT,
                   metrics, stderr, stdout, inputs, exitCode, receipts,
                   duringRun, sigCalls, starts, spawned, sendOnClosed, fmtVars>>

\* if cmd.Process != nil: with nil the signal is discarded and the loop goes on.
ListenerCheck ==
    /\ lpc = "check"
    /\ pc # "exited"
    /\ \E seen \in ProcessSeenByListener :
          IF seen = "set"
          THEN lpc' = "signal" /\ UNCHANGED lsig
          ELSE lpc' = "recv" /\ lsig' = NoSig
    /\ UNCHANGED <<pc, sigChan, chanClosed, subscribed, cmdProcess, child,
                   waitStatus, processState, runErr, clock, startT, endT,
                   metrics, stderr, stdout, inputs, exitCode, receipts,
                   duringRun, sigCalls, starts, spawned, sendOnClosed,
                   fmtVars>>

\* The variables of runCommand the listener's next statement reads: cmd.Process
\* in the test and again in the call.  sig is its own, and sigChan is a
\* channel, whose operations synchronise.
ListenerReads == IF lpc \in {"check", "signal"} THEN {"cmd.Process"} ELSE {}

\* The variables of runCommand the main goroutine's next statement writes:
\* cmd.Run sets cmd.Process in Start and cmd.ProcessState in Wait.
MainWrites ==
    CASE pc = "start" -> {"start"}
      [] pc = "run" -> {"cmd.Process"}
      [] pc = "wait" -> {"cmd.ProcessState"}
      [] pc = "end" -> {"end"}
      [] OTHER -> {}

\* cmd.Process.Signal(sig) succeeds until cmd.Wait has reaped the child and
\* fails with "process already finished" afterwards.
SignalSucceeds == child \in {"running", "zombie"}

\* ListenerSignal that leaves the loop when the call fails.
ListenerSignal_StopsOnError ==
    /\ lpc = "signal"
    /\ pc # "exited"
    /\ sigCalls' = Append(sigCalls, [id |-> lsig.id, sig |-> lsig.sig,
                                     ok |-> SignalSucceeds,
                                     late |-> pc \in AfterReturn])
    /\ lsig' = NoSig
    /\ lpc' = IF SignalSucceeds THEN "recv" ELSE "done"
    /\ UNCHANGED <<pc, sigChan, chanClosed, subscribed, cmdProcess, child,
                   waitStatus, processState, runErr, clock, startT, endT,
                   metrics, stderr, stdout, inputs, exitCode, receipts,
                   duringRun, starts, spawned, sendOnClosed, fmtVars>>

\* _ = cmd.Process.Signal(sig): one call, its error discarded, back to the loop.
ListenerSignal ==
    /\ lpc = "signal"
    /\ pc # "exited"
    /\ sigCalls' = Append(sigCalls, [id |-> lsig.id, sig |-> lsig.sig,
                                     ok |-> SignalSucceeds,
                                     late |-> pc \in AfterReturn])
    /\ lsig' = NoSig
    /\ lpc' = "recv"
    /\ UNCHANGED <<pc, sigChan, chanClosed, subscribed, cmdProcess, child,
                   waitStatus, processState, runErr, clock, startT, endT,
                   metrics, stderr, stdout, inputs, exitCode, receipts,
                   duringRun, starts, spawned, sendOnClosed, fmtVars>>

----------------------------------------------------------------------------
(* The environment: the Go runtime's signal delivery, the child, the clock *)

\* SignalArrives on a channel that stacks: no bound, the newest signal first.
SignalArrives_Stack ==
    /\ subscribed
    /\ pc # "exited"
    /\ Len(receipts) < MaxSignals
    /\ \E s \in ArrivingSignals \cap signalList :
          LET id == Len(receipts) + 1
          IN  /\ receipts' = Append(receipts, s)
              /\ duringRun' = IF child = "running" THEN duringRun \cup {id} ELSE duringRun
              /\ IF chanClosed
                 THEN sendOnClosed' = TRUE /\ UNCHANGED sigChan
                 ELSE /\ sigChan' = <<[id |-> id, sig |-> s]>> \o sigChan
                      /\ UNCHANGED sendOnClosed
    /\ UNCHANGED <<pc, lpc, lsig, chanClosed, subscribed, cmdProcess, child,
                   waitStatus, processState, runErr, clock, startT, endT,
                   metrics, stderr, stdout, inputs, exitCode, sigCalls,
                   starts, spawned, fmtVars>>

\* A signal of the relayed set reaches the wrapper while signal.Notify is in
\* force: os/signal sends it on sigChan without blocking, so it is discarded
\* when the buffer is full; a send on a closed channel panics.
SignalArrives ==
    /\ subscribed
    /\ pc # "exited"
    /\ Len(receipts) < MaxSignals
    /\ \E s \in ArrivingSignals \cap signalList :
          LET id == Len(receipts) + 1
          IN  /\ receipts' = Append(receipts, s)
              /\ duringRun' = IF child = "running" THEN duringRun \cup {id} ELSE duringRun
              /\ IF chanClosed
                 THEN sendOnClosed' = TRUE /\ UNCHANGED sigChan
                 ELSE IF Len(sigChan) < ChanCap
                 THEN /\ sigChan' = Append(sigChan, [id |-> id, sig |-> s])
                      /\ UNCHANGED sendOnClosed
                 ELSE UNCHANGED <<sigChan, sendOnClosed>>
    /\ UNCHANGED <<pc, lpc, lsig, chanClosed, subscribed, cmdProcess, child,
                   waitStatus, processState, runErr, clock, startT, endT,
                   metrics, stderr, stdout, inputs, exitCode, sigCalls,
                   starts, spawned, fmtVars>>

\* The child ends: it exits with a code, or a signal (relayed by the wrapper
\* or sent by anyone else) terminates it.
ChildEnds ==
    /\ child = "running"
    /\ child' = "zombie"
    /\ \/ \E c \in ExitCodes : waitStatus' = [kind |-> "exit", val |-> c]
       \/ \E n \in KillSignals : waitStatus' = [kind |-> "signal", val |-> n]
    /\ UNCHANGED <<pc, lpc, lsig, sigChan, chanClosed, subscribed, cmdProcess,
                   processState, runErr, clock, startT, endT, metrics, stderr,
                   stdout, inputs, exitCode, receipts, duringRun, sigCalls,
                   starts, spawned, sendOnClosed, fmtVars>>

\* Time passes between the two readings of the clock.
Tick ==
    /\ clock < MaxClock
    /\ pc \in {"run", "wait", "end"}
    /\ clock' = clock + 1
    /\ UNCHANGED <<pc, lpc, lsig, sigChan, chanClosed, subscribed, cmdProcess,
                   child, waitStatus, processState, runErr, startT, endT,
                   metrics, stderr, stdout, inputs, exitCode, receipts,
                   duringRun, sigCalls, starts, spawned, sendOnClosed,
                   fmtVars>>

----------------------------------------------------------------------------
(* The specification of the run *)

FormatIdle ==
    /\ tmpl = <<>>
    /\ fm = ZeroMetrics
    /\ idx = 0
    /\ inPercent = FALSE
    /\ out = <<>>
    /\ fpc = "idle"

\* The state when runCommand is entered.
RunIdle ==
    /\ pc = "notify"
    /\ lpc = "none"
    /\ lsig = NoSig
    /\ sigChan = <<>>
    /\ chanClosed = FALSE
    /\ subscribed = FALSE
    /\ cmdProcess = "nil"
    /\ child = "none"
    /\ waitStatus = NoStatus
    /\ processState = NoState
    /\ runErr = "unset"
    /\ clock = 0
    /\ startT = 0
    /\ endT = 0
    /\ metrics = ZeroMetrics
    /\ stderr = <<>>
    /\ stdout = <<>>
    /\ inputs = NoInputs
    /\ exitCode = -1
    /\ receipts = <<>>
    /\ duringRun = {}
    /\ sigCalls = <<>>
    /\ starts = 0
    /\ spawned = 0
    /\ sendOnClosed = FALSE

Init ==
    /\ RunIdle
    /\ FormatIdle

Next ==
    \/ SignalNotify
    \/ GoListener
    \/ TakeStart
    \/ CmdStart
    \/ CmdWait
    \/ TakeEnd
    \/ SignalStop
    \/ CloseChan
    \/ ReturnMetrics
    \/ Output
    \/ MainExit
    \/ ListenerRecv
    \/ ListenerCheck
    \/ ListenerSignal
    \/ SignalArrives
    \/ ChildEnds
    \/ Tick

Spec == Init /\ [][Next]_vars

----------------------------------------------------------------------------
(* The specification of the report: runCommand about to return, for any     *)
(* process state cmd.Run can leave behind.                                  *)

\* User and system times (ms) of the usage records: those of
\* TestCalculateCPUPercent, and 290 ms, which is no binary fraction of a
\* second.
ReportTimes == {<<0, 0>>, <<500, 500>>, <<10, 10>>, <<2000, 500>>, <<290, 0>>}

ReportUsages ==
    {BusyUsage} \cup {[ZeroUsage EXCEPT !.Utime = t[1], !.Stime = t[2]] : t \in ReportTimes}

\* How a child that was started can have ended.
ReportStatuses ==
    {[kind |-> "exit", val |-> c] : c \in ExitCodes}
        \cup {[kind |-> "signal", val |-> SIGKILL]}

\* cmd.ProcessState after cmd.Run: nil after a launch failure; otherwise the
\* status and the usage record, which populateUsage finds to be a
\* *syscall.Rusage or not.
ReportStates ==
    {NoState} \cup [set : {TRUE}, status : ReportStatuses, native : BOOLEAN,
                    usage : ReportUsages]

\* runCommand has stopped the relay and is about to build the Metrics; no
\* signal arrived during the run.
ReportInit ==
    /\ FormatIdle
    /\ pc = "extract"
    /\ lpc = "done"
    /\ lsig = NoSig
    /\ sigChan = <<>>
    /\ chanClosed = TRUE
    /\ subscribed = FALSE
    /\ processState \in ReportStates
    /\ cmdProcess = IF processState.set THEN "set" ELSE "nil"
    /\ child = IF processState.set THEN "reaped" ELSE "none"
    /\ waitStatus = processState.status
    /\ runErr = IF ~processState.set THEN "launch"
                ELSE IF processState.status.kind = "exit" /\ processState.status.val = 0
                THEN "nil" ELSE "exit"
    /\ startT = 0
    /\ endT \in 0..MaxSpan
    /\ clock = endT
    /\ metrics = ZeroMetrics
    /\ stderr = <<>>
    /\ stdout = <<>>
    /\ inputs = NoInputs
    /\ exitCode = -1
    /\ receipts = <<>>
    /\ duringRun = {}
    /\ sigCalls = <<>>
    /\ starts = 1
    /\ spawned = IF processState.set THEN 1 ELSE 0
    /\ sendOnClosed = FALSE

ReportNext ==
    \/ ReturnMetrics
    \/ Output
    \/ MainExit

ReportSpec == ReportInit /\ [][ReportNext]_vars

----------------------------------------------------------------------------
(* Properties of the run *)

\* The calls of cmd.Process.Signal made for receipt id.
CallsFor(id) == {i \in 1..Len(sigCalls) : sigCalls[i].id = id}
\* The calls of cmd.Process.Signal that failed.
FailedCalls == {i \in 1..Len(sigCalls) : ~sigCalls[i].ok}
\* The failure reports ("ztime: <err>") on os.Stderr.
ErrorReports == {i \in 1..Len(stderr) : stderr[i].kind = "error"}

\* C1: when the child was started and the wrapper has exited, the wrapper's
\* exit code is the child's exit code c if the child exited normally, and
\* 128 + n if signal n terminated the child.
C1_ExitDisposition ==
    (pc = "exited" /\ spawned > 0) =>
        /\ waitStatus.kind = "exit" => exitCode = waitStatus.val
        /\ waitStatus.kind = "signal" => exitCode = 128 + waitStatus.val

C1_Witness ==
    /\ pc = "exited"
    /\ waitStatus = [kind |-> "signal", val |-> SIGINT]
    /\ exitCode = 130

\* C2: when the command could not be started, no child process ever existed,
\* the command was tried once, at most one failure report is ever written,
\* and the wrapper exits with 127 after exactly one report.
C2_LaunchFailure ==
    /\ Cardinality(ErrorReports) <= 1
    /\ runErr = "launch" =>
          /\ starts = 1 /\ spawned = 0 /\ child = "none" /\ ~processState.set
          /\ pc = "exited" => (exitCode = 127 /\ Cardinality(ErrorReports) = 1)

C2_Witness == pc = "exited" /\ runErr = "launch" /\ exitCode = 127

\* C3 (as claimed): every relayed signal received while the child is running
\* is forwarded exactly once: it is still on its way to the child (buffered
\* in the channel or held by the listener) or cmd.Process.Signal has been
\* called for it, with the same signal number, and never twice.
C3_ForwardedExactlyOnce ==
    \A id \in duringRun :
        /\ Cardinality(CallsFor(id)) <= 1
        /\ \A i \in CallsFor(id) : sigCalls[i].sig = receipts[id]
        /\ \/ CallsFor(id) # {}
           \/ lsig.id = id
           \/ \E k \in 1..Len(sigChan) : sigChan[k].id = id

\* C4: no signal is ever sent on the closed channel; when the channel is
\* closed the subscription has been stopped; and the teardown (from the
\* moment signal.Stop has run) only happens once cmd.Run has returned: the
\* child has been reaped, or it was never started.
C4_TeardownOrder ==
    /\ ~sendOnClosed
    /\ chanClosed => ~subscribed
    /\ (chanClosed \/ pc = "close") =>
          \/ child = "reaped"
          \/ runErr = "launch" /\ child = "none"

C4_Witness == chanClosed /\ child = "reaped" /\ Len(receipts) = MaxSignals

\* C5 (as claimed): no cmd.Process.Signal call is made once runCommand has
\* returned.
C5_NoCallAfterReturn == \A i \in 1..Len(sigCalls) : ~sigCalls[i].late

\* C6 (as claimed): on every exit path the teardown has been executed and the
\* listener's receive loop has ended by the time the wrapper exits.
C6_ListenerTerminated ==
    pc = "exited" => (~subscribed /\ chanClosed /\ lpc = "done")

\* C7: the command is started at most once; once cmd.Run is past the launch it
\* has been started exactly once, and when the launch succeeded exactly one
\* child process was created, whatever the outcome.
C7_StartedOnce ==
    /\ starts <= 1
    /\ spawned <= starts
    /\ pc \notin {"notify", "go", "start", "run"} =>
          /\ starts = 1
          /\ runErr # "launch" => spawned = 1

C7_Witness ==
    /\ pc = "exited"
    /\ spawned = 1
    /\ waitStatus.kind = "signal"
    /\ FailedCalls # {}

\* C8: a failed cmd.Process.Signal call is not repeated (no receipt is ever
\* signalled twice), leaves the listener in its receive loop with the signal
\* gone, and changes neither the Metrics, the error of the run, the exit
\* code, the wrapper's error stream nor the main flow's position.
C8_SendFailureDropped ==
    /\ [](\A id \in 1..Len(receipts) : Cardinality(CallsFor(id)) <= 1)
    /\ [][(Len(sigCalls') > Len(sigCalls) /\ ~sigCalls'[Len(sigCalls')].ok) =>
            /\ lpc' = "recv"
            /\ lsig' = NoSig
            /\ UNCHANGED <<pc, metrics, runErr, processState, exitCode, stderr,
                           starts, spawned>>]_vars

C8_Witness ==
    /\ pc = "exited"
    /\ exitCode = 0
    /\ Len(sigCalls) = 2
    /\ FailedCalls = {1, 2}

----------------------------------------------------------------------------
(* The specification of format(tmpl, m) *)

\* The characters of the templates: '%', the specifiers '*', E, J, U, P, M,
\* D, K, c, and Z, a, which are no specifiers.
TemplateChars == {"%", "*", "E", "J", "U", "P", "M", "D", "K", "c", "Z", "a"}

RECURSIVE SeqsUpTo(_, _)
SeqsUpTo(S, n) ==
    IF n = 0 THEN {<<>>}
    ELSE LET shorter == SeqsUpTo(S, n - 1)
         IN  shorter \cup {Append(t, ch) : t \in shorter, ch \in S}

\* The default template (the draft main's fallback and TestFormat's "Default").
DefaultTemplate ==
    <<"%", "J", " ", " ", "%", "U", " ", "u", "s", "e", "r", " ", "%", "S",
      " ", "s", "y", "s", "t", "e", "m", " ", "%", "P", " ", "c", "p", "u",
      " ", "%", "*", "E", " ", "t", "o", "t", "a", "l">>

\* The templates of TestFormatMetrics.
IntTemplate ==
    <<"%", "W", " ", "%", "X", " ", "%", "D", " ", "%", "K", " ", "%", "F",
      " ", "%", "R", " ", "%", "I", " ", "%", "O", " ", "%", "r", " ", "%",
      "s", " ", "%", "k", " ", "%", "w", " ", "%", "c">>
PercentTemplate == <<"1", "0", "0", "%", "%">>

\* Every character handleSpecifier and handleIntSpecifier know, and 'Z'.
SpecifierChars ==
    {"%", "J", "U", "S", "E", "P", "*", "M", "W", "X", "D", "K", "F", "R", "I", "O",
     "r", "s", "k", "w", "c", "Z"}

\* Each specifier character on its own after a '%', bare and inside text.
SpecifierTemplates ==
    {<<"%", ch>> : ch \in SpecifierChars} \cup {<<"a", "%", ch, "a">> : ch \in SpecifierChars}

\* All short templates over TemplateChars, every specifier once, and the
\* templates of the tests.
Templates ==
    SeqsUpTo(TemplateChars, MaxLen) \cup SpecifierTemplates
        \cup {DefaultTemplate, IntTemplate, PercentTemplate}

\* The Metrics of TestFormat and TestFormatElapsedHours, and the zero value.
TestMetrics ==
    [ZeroMetrics EXCEPT !.Command = <<"s", "l", "e", "e", "p", " ", "1">>,
                        !.UserTime = 500, !.SystemTime = 250, !.ElapsedTime = 2500,
                        !.CPUPercent = 30, !.MaxRSS = 1024, !.SharedRSS = 512,
                        !.UnsharedData = 256, !.UnsharedStk = 128, !.PageFaults = 10,
                        !.PageReclaims = 20, !.Swaps = 5, !.BlockInput = 100,
                        !.BlockOutput = 200, !.MsgsRecv = 50, !.MsgsSent = 60,
                        !.Signals = 2, !.VCtxSwitches = 15, !.ICtxSwitches = 25]
HourMetrics == [ZeroMetrics EXCEPT !.ElapsedTime = 3661000]

\* A Metrics whose times fall between hundredths and whose elapsed time is
\* just below a minute; every counter differs from every other.
EdgeMetrics ==
    [Command |-> <<"x">>, UserTime |-> 125, SystemTime |-> 1005, ElapsedTime |-> 59999,
     CPUPercent |-> 250, MaxRSS |-> 3, SharedRSS |-> 5, UnsharedRSS |-> 7,
     UnsharedData |-> 11, UnsharedStk |-> 13, PageFaults |-> 17, PageReclaims |-> 19,
     Swaps |-> 23, BlockInput |-> 29, BlockOutput |-> 31, MsgsSent |-> 37,
     MsgsRecv |-> 41, Signals |-> 43, VCtxSwitches |-> 47, ICtxSwitches |-> 53]
FormatMetrics == {ZeroMetrics, TestMetrics, HourMetrics, EdgeMetrics}

\* format is entered with any template and any Metrics.
FormatInit ==
    /\ RunIdle
    /\ tmpl \in Templates
    /\ fm \in FormatMetrics
    /\ idx = 0
    /\ inPercent = FALSE
    /\ out = <<>>
    /\ fpc = "loop"

\* The loop's variables after an iteration.
FormatStore(st) ==
    /\ idx' = st.idx
    /\ inPercent' = st.inPercent
    /\ out' = st.out

\* for i := 0; i < len(tmpl); i++ { ... }: one iteration.
FormatLoop ==
    /\ fpc = "loop"
    /\ idx < Len(tmpl)
    /\ FormatStore(FormatIter(tmpl, fm, [idx |-> idx, inPercent |-> inPercent, out |-> out]))
    /\ UNCHANGED <<tmpl, fm, fpc, runVars>>

\* The loop is over: if inPercent { out.WriteByte('%') }; return out.String()
FormatReturn ==
    /\ fpc = "loop"
    /\ idx >= Len(tmpl)
    /\ out' = FormatEnd([idx |-> idx, inPercent |-> inPercent, out |-> out])
    /\ fpc' = "done"
    /\ UNCHANGED <<tmpl, fm, idx, inPercent, runVars>>

FormatNext ==
    \/ FormatLoop
    \/ FormatReturn

FormatSpec == FormatInit /\ [][FormatNext]_vars

----------------------------------------------------------------------------
(* Properties of format *)

\* The characters the specifier table and the '*' lookahead give a meaning.
SpecifierTable ==
    {"%", "J", "U", "S", "E", "P", "M", "W", "X", "D", "K", "F", "R", "I", "O",
     "r", "s", "k", "w", "c"}
UnknownChars == TemplateChars \ (SpecifierTable \cup {"*"})

HasPercent(t) == \E i \in 1..Len(t) : t[i] = "%"

\* Every '%' of t is followed by a character that is no specifier.
OnlyUnknownSpecifiers(t) ==
    \A i \in 1..Len(t) : t[i] = "%" => (i < Len(t) /\ t[i + 1] \in UnknownChars)

\* C9: for a template without '%' and any Metrics, the output is at every
\* moment the part of the template scanned so far, and the whole template
\* when format returns.
C9_NoPercentIdentity ==
    ~HasPercent(tmpl) =>
        /\ out = SubSeq(tmpl, 1, idx)
        /\ ~inPercent
        /\ fpc = "done" => out = tmpl

C9_Witness == fpc = "done" /\ tmpl = <<"J", "*", "E">> /\ fm = TestMetrics /\ out = tmpl

\* C10: an iteration that finds a character c that is no specifier after a
\* '%' appends exactly '%' and c to the output, whatever the Metrics, moves
\* to the next character and leaves specifier mode; and a template whose
\* every '%' is followed by such a character is rendered unchanged.
C10_UnknownSpecifier ==
    /\ []((fpc = "done" /\ OnlyUnknownSpecifiers(tmpl)) => out = tmpl)
    /\ [][(fpc = "loop" /\ idx < Len(tmpl) /\ inPercent
            /\ tmpl[idx + 1] \in UnknownChars) =>
               /\ out' = out \o <<"%", tmpl[idx + 1]>>
               /\ idx' = idx + 1
               /\ ~inPercent'
               /\ fpc' = "loop"]_vars

C10_Witness ==
    /\ fpc = "done"
    /\ tmpl = <<"%", "Z", "J">>
    /\ fm = TestMetrics
    /\ out = <<"%", "Z", "J">>

----------------------------------------------------------------------------
(* Reference renderings, written from the documented output forms and not   *)
(* from the interpreter's arithmetic.                                       *)

\* The iteration about to run reads character ch right after a '%'.
AtSpecifier(ch) ==
    fpc = "loop" /\ idx < Len(tmpl) /\ inPercent /\ tmpl[idx + 1] = ch

\* The '*' read by that iteration is followed by 'E'.
StarBeforeE == idx + 1 < Len(tmpl) /\ tmpl[idx + 2] = "E"

\* What the iteration appended to the output.
Appended == SubSeq(out', Len(out) + 1, Len(out'))

\* The iteration appended to the output and removed nothing.
OnlyAppended == Len(out') >= Len(out) /\ SubSeq(out', 1, Len(out)) = out

IsDigit(ch) == \E i \in 1..10 : Digit[i] = ch

DigitValue(ch) == (CHOOSE i \in 1..10 : Digit[i] = ch) - 1

\* text is a decimal numeral: digits only, no leading zero but for "0".
IsDecimal(text) ==
    /\ Len(text) >= 1
    /\ \A i \in 1..Len(text) : IsDigit(text[i])
    /\ Len(text) > 1 => text[1] # "0"

RECURSIVE DecimalValue(_)
DecimalValue(text) ==
    IF Len(text) = 0 THEN 0
    ELSE 10 * DecimalValue(SubSeq(text, 1, Len(text) - 1)) + DigitValue(text[Len(text)])

\* The hundredths nearest to a time of ms milliseconds (both neighbours when
\* the time lies halfway between them).
NearestHundredths(ms) ==
    {cs \in {ms \div 10, ms \div 10 + 1} :
        10 * cs - ms <= 5 /\ ms - 10 * cs <= 5}

\* text is "N.DD": a decimal numeral, a point and two digits; its value in
\* hundredths.
IsFixed2(text) ==
    /\ Len(text) >= 4
    /\ text[Len(text) - 2] = "."
    /\ IsDigit(text[Len(text) - 1])
    /\ IsDigit(text[Len(text)])
    /\ IsDecimal(SubSeq(text, 1, Len(text) - 3))

Fixed2Value(text) ==
    100 * DecimalValue(SubSeq(text, 1, Len(text) - 3))
        + 10 * DigitValue(text[Len(text) - 1]) + DigitValue(text[Len(text)])

\* text is "SS.SS": two digits, a point, two digits.
IsPaddedSeconds(text) ==
    /\ Len(text) = 5
    /\ text[3] = "."
    /\ \A i \in {1, 2, 4, 5} : IsDigit(text[i])

PaddedSecondsValue(text) ==
    1000 * DigitValue(text[1]) + 100 * DigitValue(text[2])
        + 10 * DigitValue(text[4]) + DigitValue(text[5])

\* text is "M:SS.SS" for an elapsed time of d ms: the whole minutes
\* unpadded, the seconds of the minute to the nearest hundredth.
IsMinutesClock(text, d) ==
    /\ Len(text) >= 7
    /\ text[Len(text) - 5] = ":"
    /\ IsDecimal(SubSeq(text, 1, Len(text) - 6))
    /\ DecimalValue(SubSeq(text, 1, Len(text) - 6)) = (d \div 60000) % 60
    /\ IsPaddedSeconds(SubSeq(text, Len(text) - 4, Len(text)))
    /\ PaddedSecondsValue(SubSeq(text, Len(text) - 4, Len(text)))
           \in NearestHundredths(d % 60000)

\* text is "H:MM:SS.SS" for an elapsed time of d ms.
IsHoursClock(text, d) ==
    /\ Len(text) >= 10
    /\ text[Len(text) - 8] = ":"
    /\ text[Len(text) - 5] = ":"
    /\ IsDecimal(SubSeq(text, 1, Len(text) - 9))
    /\ DecimalValue(SubSeq(text, 1, Len(text) - 9)) = d \div 3600000
    /\ IsDigit(text[Len(text) - 7]) /\ IsDigit(text[Len(text) - 6])
    /\ 10 * DigitValue(text[Len(text) - 7]) + DigitValue(text[Len(text) - 6])
           = (d \div 60000) % 60
    /\ IsPaddedSeconds(SubSeq(text, Len(text) - 4, Len(text)))
    /\ PaddedSecondsValue(SubSeq(text, Len(text) - 4, Len(text)))
           \in NearestHundredths(d % 60000)

\* The integer specifiers and the Metrics value each one stands for.
IntSpecifiers == {"M", "W", "X", "D", "K", "F", "R", "I", "O", "r", "s", "k", "w", "c"}

IntField(ch, m) ==
    CASE ch = "M" -> m.MaxRSS
      [] ch = "W" -> m.Swaps
      [] ch = "X" -> m.SharedRSS
      [] ch = "F" -> m.PageFaults
      [] ch = "R" -> m.PageReclaims
      [] ch = "I" -> m.BlockInput
      [] ch = "O" -> m.BlockOutput
      [] ch = "r" -> m.MsgsRecv
      [] ch = "s" -> m.MsgsSent
      [] ch = "k" -> m.Signals
      [] ch = "w" -> m.VCtxSwitches
      [] ch = "c" -> m.ICtxSwitches
      [] ch = "D" -> m.UnsharedData + m.UnsharedStk
      [] ch = "K" -> m.SharedRSS + m.UnsharedData + m.UnsharedStk

TimeField(ch, m) ==
    CASE ch = "U" -> m.UserTime
      [] ch = "S" -> m.SystemTime
      [] ch = "E" -> m.ElapsedTime

\* The outputs TestFormat and TestFormatMetrics expect.
DefaultExpected ==
    <<"s", "l", "e", "e", "p", " ", "1", " ", " ", "0", ".", "5", "0", "s",
      " ", "u", "s", "e", "r", " ", "0", ".", "2", "5", "s", " ", "s", "y",
      "s", "t", "e", "m", " ", "3", "0", "%", " ", "c", "p", "u", " ", "0",
      ":", "0", "2", ".", "5", "0", " ", "t", "o", "t", "a", "l">>
IntExpected ==
    <<"5", " ", "5", "1", "2", " ", "3", "8", "4", " ", "8", "9", "6", " ",
      "1", "0", " ", "2", "0", " ", "1", "0", "0", " ", "2", "0", "0", " ",
      "5", "0", " ", "6", "0", " ", "2", " ", "1", "5", " ", "2", "5">>

----------------------------------------------------------------------------
(* Properties of the specifiers *)

\* C11: the iteration that reads "%*E" appends the elapsed time as
\* H:MM:SS.SS when it is an hour or more and as M:SS.SS otherwise, and moves
\* past the 'E'; 2500 ms gives "0:02.50" and 3661 s gives "1:01:01.00".
C11_StarElapsed ==
    /\ []((fpc = "done" /\ tmpl = <<"%", "*", "E">> /\ fm = TestMetrics)
            => out = <<"0", ":", "0", "2", ".", "5", "0">>)
    /\ []((fpc = "done" /\ tmpl = <<"%", "*", "E">> /\ fm = HourMetrics)
            => out = <<"1", ":", "0", "1", ":", "0", "1", ".", "0", "0">>)
    /\ [][(AtSpecifier("*") /\ StarBeforeE) =>
               /\ OnlyAppended
               /\ IF fm.ElapsedTime >= 3600000
                  THEN IsHoursClock(Appended, fm.ElapsedTime)
                  ELSE IsMinutesClock(Appended, fm.ElapsedTime)
               /\ idx' = idx + 2
               /\ ~inPercent']_vars

C11_Witness ==
    /\ fpc = "done"
    /\ tmpl = <<"%", "*", "E">>
    /\ fm = HourMetrics
    /\ out = <<"1", ":", "0", "1", ":", "0", "1", ".", "0", "0">>

\* C12: the iteration that reads "%*" with no 'E' after it appends one '*'
\* and moves one character on, out of specifier mode, so that what follows
\* is read as ordinary template text: the output of "%*" followed by rest
\* is that of "*" followed by rest.
C12_StarLiteral ==
    /\ []((fpc = "done" /\ Len(tmpl) >= 2 /\ tmpl[1] = "%" /\ tmpl[2] = "*"
             /\ ~(Len(tmpl) >= 3 /\ tmpl[3] = "E"))
            => out = format(Tail(tmpl), fm))
    /\ [][(AtSpecifier("*") /\ ~StarBeforeE) =>
               /\ out' = Append(out, "*")
               /\ idx' = idx + 1
               /\ ~inPercent']_vars

C12_Witness ==
    /\ fpc = "done"
    /\ tmpl = <<"%", "*", "J">>
    /\ fm = TestMetrics
    /\ out = <<"*", "J">>

\* C13: the iteration that reads "%%" appends one '%', and the second '%'
\* opens no specifier: the next character is read in literal mode;
\* "100%%" gives "100%".
C13_PercentPercent ==
    /\ []((fpc = "done" /\ tmpl = PercentTemplate) => out = <<"1", "0", "0", "%">>)
    /\ []((fpc = "done" /\ tmpl = <<"%", "%", "J">>) => out = <<"%", "J">>)
    /\ [][AtSpecifier("%") =>
               /\ out' = Append(out, "%")
               /\ idx' = idx + 1
               /\ ~inPercent']_vars

C13_Witness ==
    /\ fpc = "done"
    /\ tmpl = <<"%", "%", "J">>
    /\ fm = TestMetrics
    /\ out = <<"%", "J">>

\* C14: when the loop ends in specifier mode, which is when the last
\* character of the template is a '%' that opened a specifier, format
\* appends one '%' and returns; otherwise it returns what the loop wrote.
C14_TrailingPercent ==
    /\ []((fpc = "loop" /\ idx >= Len(tmpl) /\ inPercent)
            => (Len(tmpl) >= 1 /\ tmpl[Len(tmpl)] = "%"))
    /\ []((fpc = "done" /\ tmpl = <<"%", "J", "%">> /\ fm = TestMetrics)
            => out = Append(TestMetrics.Command, "%"))
    /\ [][(fpc = "loop" /\ idx >= Len(tmpl)) =>
               /\ fpc' = "done"
               /\ out' = IF inPercent THEN Append(out, "%") ELSE out]_vars

C14_Witness ==
    /\ fpc = "done"
    /\ tmpl = <<"%", "J", "%">>
    /\ fm = TestMetrics
    /\ inPercent
    /\ out = Append(TestMetrics.Command, "%")

\* C15: the iteration that reads an integer specifier appends the decimal
\* numeral of the Metrics value the specifier stands for (%D and %K the
\* sums), and nothing else; the template of TestFormatMetrics gives the
\* output the test expects.
C15_IntSpecifiers ==
    /\ []((fpc = "done" /\ tmpl = IntTemplate /\ fm = TestMetrics) => out = IntExpected)
    /\ [][\A ch \in IntSpecifiers :
             AtSpecifier(ch) =>
               /\ OnlyAppended
               /\ IsDecimal(Appended)
               /\ DecimalValue(Appended) = IntField(ch, fm)
               /\ idx' = idx + 1
               /\ ~inPercent']_vars

C15_Witness ==
    /\ fpc = "done"
    /\ tmpl = <<"%", "K">>
    /\ fm = EdgeMetrics
    /\ out = <<"2", "9">>

\* C16: %U, %S and %E append the time in seconds with two decimals and an
\* 's'; %P appends the decimal numeral of CPUPercent and a '%'; %J appends
\* Command unchanged; the default template on the Metrics of TestFormat
\* gives the line the test expects.
C16_TimeSpecifiers ==
    /\ []((fpc = "done" /\ tmpl = DefaultTemplate /\ fm = TestMetrics)
            => out = DefaultExpected)
    /\ [][\A ch \in {"U", "S", "E"} :
             AtSpecifier(ch) =>
               /\ OnlyAppended
               /\ Len(Appended) >= 5
               /\ Appended[Len(Appended)] = "s"
               /\ IsFixed2(SubSeq(Appended, 1, Len(Appended) - 1))
               /\ Fixed2Value(SubSeq(Appended, 1, Len(Appended) - 1))
                      \in NearestHundredths(TimeField(ch, fm))
               /\ idx' = idx + 1
               /\ ~inPercent']_vars
    /\ [][AtSpecifier("P") =>
               /\ OnlyAppended
               /\ Len(Appended) >= 2
               /\ Appended[Len(Appended)] = "%"
               /\ IsDecimal(SubSeq(Appended, 1, Len(Appended) - 1))
               /\ DecimalValue(SubSeq(Appended, 1, Len(Appended) - 1)) = fm.CPUPercent
               /\ idx' = idx + 1
               /\ ~inPercent']_vars
    /\ [][AtSpecifier("J") =>
               /\ out' = out \o fm.Command
               /\ idx' = idx + 1
               /\ ~inPercent']_vars

C16_Witness ==
    /\ fpc = "done"
    /\ tmpl = DefaultTemplate
    /\ fm = TestMetrics
    /\ out = DefaultExpected

----------------------------------------------------------------------------
(* Properties of the report *)

\* The summary writes of the run.
SummaryWrites == {i \in 1..Len(stderr) : stderr[i].kind = "summary"}

\* The writes of the run that report the Metrics.
ReportWrites == {i \in 1..Len(stderr) : stderr[i].kind \in {"summary", "json"}}

\* The counters of the usage record, as Metrics carries them.
CounterFields ==
    {"MaxRSS", "SharedRSS", "UnsharedRSS", "UnsharedData", "UnsharedStk", "PageFaults",
     "PageReclaims", "Swaps", "BlockInput", "BlockOutput", "MsgsSent", "MsgsRecv",
     "Signals", "VCtxSwitches", "ICtxSwitches"}

\* C17: once the Metrics of a run with a process state are built, CPUPercent
\* is the integer part of 100 * (UserTime + SystemTime) / ElapsedTime when
\* the elapsed time is positive, and 0 otherwise.
C17_CPUPercent ==
    (pc \in AfterReturn /\ processState.set) =>
        metrics.CPUPercent =
            IF metrics.ElapsedTime > 0
            THEN (100 * (metrics.UserTime + metrics.SystemTime)) \div metrics.ElapsedTime
            ELSE 0

\* C18: every summary line written is the rendering of the default template
\* when TIMEFMT is unset or empty, and the rendering of TIMEFMT's value
\* otherwise, followed by a newline.
C18_TimeFmtSelection ==
    \A i \in SummaryWrites :
        printSummary(inputs.TIMEFMT, stderr[i].m) =
            Append(format(IF inputs.TIMEFMT = <<>> THEN DefaultTemplate
                          ELSE inputs.TIMEFMT, stderr[i].m), "\n")

\* C19: the Metrics of a run always carry the command line and the elapsed
\* time; every other field is zero when there is no process state, and every
\* counter is zero when the usage record is not a native one; in each case
\* the run goes on to report them unless it is quiet, and to exit.
C19_MetricsAlways ==
    /\ [](pc \in AfterReturn =>
            /\ metrics.Command = <<"s", "l", " ", "1">>
            /\ metrics.ElapsedTime = (endT - startT) * TickMs
            /\ ~processState.set =>
                  metrics = [ZeroMetrics EXCEPT !.Command = metrics.Command,
                                                !.ElapsedTime = metrics.ElapsedTime]
            /\ (processState.set /\ ~processState.native) =>
                  /\ \A f \in CounterFields : metrics[f] = 0
                  /\ metrics.UserTime = processState.usage.Utime
                  /\ metrics.SystemTime = processState.usage.Stime)
    /\ [](pc \in {"exitcode", "exited"} =>
            IF inputs.Quiet THEN ReportWrites = {}
            ELSE /\ Cardinality(ReportWrites) = 1
                 /\ \A i \in ReportWrites : stderr[i].m = metrics)
    /\ [][pc = "extract" => pc' = "output"]_vars

C19_Witness ==
    /\ pc = "exited"
    /\ ~processState.set
    /\ endT = 1
    /\ SummaryWrites # {}
    /\ metrics = [ZeroMetrics EXCEPT !.Command = <<"s", "l", " ", "1">>,
                                     !.ElapsedTime = TickMs]

\* C20: the start time is read before the command is started and the end
\* time after the child has been reaped or the launch has failed, nothing
\* is started before the one or after the other, and the elapsed time of the
\* Metrics is the end minus the start and never negative.
C20_ElapsedSpan ==
    /\ [](pc \in AfterReturn =>
            /\ metrics.ElapsedTime = (endT - startT) * TickMs
            /\ metrics.ElapsedTime >= 0)
    /\ [](pc \in {"notify", "go", "start"} => (starts = 0 /\ child = "none"))
    /\ [][(pc = "start" /\ pc' # "start") => (startT' = clock /\ starts' = 0)]_vars
    /\ [][(pc = "end" /\ pc' # "end") =>
            /\ endT' = clock
            /\ endT' >= startT
            /\ child \in {"reaped", "none"}
            /\ child = "none" <=> runErr = "launch"]_vars
    /\ [][pc \notin {"start", "run", "wait", "end"} =>
            (startT' = startT /\ endT' = endT /\ starts' = starts /\ child' = child)]_vars

C20_Witness ==
    /\ pc = "exited"
    /\ child = "reaped"
    /\ startT = 0
    /\ endT = 1
    /\ metrics.ElapsedTime = TickMs

----------------------------------------------------------------------------
(* Properties of the relay *)

\* C21 (as claimed): the listener never changes the Metrics, which are built
\* only once the child is gone, and the main flow never is about to write a
\* variable that the listener is about to read.
C21_NoSharedState ==
    /\ [](MainWrites \cap ListenerReads = {})
    /\ [][(lsig' # lsig \/ sigCalls' # sigCalls) => metrics' = metrics]_vars
    /\ [][metrics' # metrics => child \in {"reaped", "none"}]_vars

\* C22: the report (summary or JSON) is written at most once, to os.Stderr
\* and never to os.Stdout; when it is written no child is alive (it has been
\* reaped, or none was started), the subscription has been stopped and the
\* channel closed, and the wrapper has not exited; nothing is written after
\* the exit, and a run that is not quiet has written it by then.
C22_ReportPlacement ==
    /\ [](Cardinality(ReportWrites) <= 1)
    /\ [](stdout = <<>>)
    /\ [][stderr' # stderr =>
            /\ Len(stderr') = Len(stderr) + 1
            /\ SubSeq(stderr', 1, Len(stderr)) = stderr
            /\ child \in {"reaped", "none"}
            /\ ~subscribed
            /\ chanClosed
            /\ pc \in {"output", "exitcode"}
            /\ exitCode = -1
            /\ stderr'[Len(stderr')].kind \in {"summary", "json"} => pc = "output"]_vars
    /\ [](pc = "exited" => (inputs.Quiet <=> ReportWrites = {}))

C22_Witness ==
    /\ pc = "exited"
    /\ child = "reaped"
    /\ Len(sigCalls) > 0
    /\ Len(stderr) = 1
    /\ stderr[1].kind = "json"

\* Receipt id is buffered in the channel.
Buffered(id) == \E k \in 1..Len(sigChan) : sigChan[k].id = id

\* Receipt id is nowhere any more: not buffered, not held by the listener,
\* and cmd.Process.Signal was never called for it.
Gone(id) == ~Buffered(id) /\ lsig.id # id /\ CallsFor(id) = {}

C24_ForwardOrder ==
    /\ \A i, j \in 1..Len(sigCalls) : i < j => sigCalls[i].id < sigCalls[j].id
    /\ \A i, j \in 1..Len(sigChan) : i < j => sigChan[i].id < sigChan[j].id
    /\ \A i \in 1..Len(sigCalls) :
          /\ lsig # NoSig => sigCalls[i].id < lsig.id
          /\ \A k \in 1..Len(sigChan) : sigCalls[i].id < sigChan[k].id
    /\ \A k \in 1..Len(sigChan) : lsig # NoSig => lsig.id < sigChan[k].id

C24_Witness ==
    /\ Len(sigCalls) = 2
    /\ sigCalls[1].id = 1 /\ sigCalls[1].ok
    /\ sigCalls[2].id = 2 /\ sigCalls[2].ok
    /\ child = "running"

----------------------------------------------------------------------------
(* Properties of the elapsed clock and of UnsharedRSS *)

\* The seconds field of a "%*E" rendering, in hundredths, and its minutes
\* field when the rendering has an hours field.
ClockSeconds(text) == PaddedSecondsValue(SubSeq(text, Len(text) - 4, Len(text)))
ClockMinutes(text) ==
    10 * DigitValue(text[Len(text) - 7]) + DigitValue(text[Len(text) - 6])

\* C25 (as claimed): the iteration that reads "%*E" appends a rendering
\* whose seconds field is below 60.00 and whose minutes field, when there is
\* an hours field, is at most 59.
C25_ClockFields ==
    [][(AtSpecifier("*") /\ StarBeforeE) =>
          /\ Len(Appended) >= 7
          /\ IsPaddedSeconds(SubSeq(Appended, Len(Appended) - 4, Len(Appended)))
          /\ ClockSeconds(Appended) < 6000
          /\ fm.ElapsedTime >= 3600000 =>
                (Len(Appended) >= 10 /\ ClockMinutes(Appended) <= 59)]_vars

\* C26: UnsharedRSS is zero in the Metrics of every run, whatever the usage
\* record holds, and no specifier's output depends on it: each one renders
\* the Metrics of the run as it renders them with another UnsharedRSS.
C26_UnsharedRSSUnused ==
    /\ metrics.UnsharedRSS = 0
    /\ pc = "output" =>
          \A ch \in SpecifierChars :
              format(<<"%", ch>>, [metrics EXCEPT !.UnsharedRSS = 7])
                  = format(<<"%", ch>>, metrics)

C26_Witness ==
    /\ pc = "exited"
    /\ processState.native
    /\ processState.usage = BusyUsage
    /\ metrics.SharedRSS = 512
    /\ metrics.UnsharedData = 256
    /\ metrics.UnsharedStk = 128
    /\ metrics.UnsharedRSS = 0

====
